---- MODULE Spec2Model ----
(***************************************************************************)
(* Model of robotoff's OCR address extraction                              *)
(* (robotoff/insights/ocr/location.py).                                    *)
(*                                                                         *)
(* A Python str is a sequence of characters; a character is a one-letter   *)
(* TLA+ string, or its code point name ("U+00E9") when it is not ASCII.    *)
(* Python offsets are 0-based and half-open, TLA+ sequences are 1-based:   *)
(* text[i] in Python is text[i + 1] here.                                  *)
(* An Optional value is a sequence of length at most one: None is << >>.   *)
(***************************************************************************)
EXTENDS Integers, Sequences, FiniteSets, TLC

VARIABLES
    json_data,          \* load_cities_fr: the parsed JSON array
    load_pc,            \* load_cities_fr: position in the function
    load_cities,        \* load_cities_fr: the local list `cities`
    load_result,        \* load_cities_fr: the returned list
    raw,                \* prepare_text: the argument
    once,               \* prepare_text(raw), Optional
    twice,              \* prepare_text(prepare_text(raw)), Optional
    cities,             \* AddressExtractor.cities
    cities_processor,   \* AddressExtractor.cities_processor (keyword -> City)
    call                \* per thread: the frame of its extract_location call

vars == <<json_data, load_pc, load_cities, load_result, raw, once, twice,
          cities, cities_processor, call>>

None == << >>
Some(x) == <<x>>

Max(a, b) == IF a >= b THEN a ELSE b
Min(a, b) == IF a <= b THEN a ELSE b

(***************************************************************************)
(* Python built-ins used by the code.                                      *)
(***************************************************************************)

\* The index a slice bound denotes in a sequence of length n: a negative
\* bound counts from the end, and both are clipped to [0, n].
SliceIndex(n, i) == IF i < 0 THEN Max(0, n + i) ELSE Min(i, n)

\* s[lo:hi]
PySlice(s, lo, hi) ==
    LET a == SliceIndex(Len(s), lo)
        b == SliceIndex(Len(s), hi)
    IN  IF b <= a THEN << >> ELSE SubSeq(s, a + 1, b)

\* s.startswith(sub, i)
StartsWithAt(s, sub, i) ==
    /\ i + Len(sub) <= Len(s)
    /\ \A k \in 1..Len(sub) : s[i + k] = sub[k]

\* s.find(sub): the lowest 0-based index of sub in s, or -1
PyFind(s, sub) ==
    LET hits == {i \in 0..Len(s) : StartsWithAt(s, sub, i)}
    IN  IF hits = {} THEN -1
        ELSE CHOOSE i \in hits : \A j \in hits : i <= j

\* s.replace(old, new) for one-character old and new
PyReplace(s, old, new) ==
    [i \in 1..Len(s) |-> IF s[i] = old THEN new ELSE s[i]]

\* "".join(ss): the concatenation of the sequences of ss, by halves
RECURSIVE Flatten(_)
Flatten(ss) ==
    IF ss = << >> THEN << >>
    ELSE IF Len(ss) = 1 THEN ss[1]
    ELSE Flatten(SubSeq(ss, 1, Len(ss) \div 2))
         \o Flatten(SubSeq(ss, Len(ss) \div 2 + 1, Len(ss)))

Separator == <<"|", "|">>

Digits == {"0", "1", "2", "3", "4", "5", "6", "7", "8", "9"}

(***************************************************************************)
(* unicodedata, restricted to the characters of the model.                 *)
(***************************************************************************)

\* Combining marks: unicodedata.combining(c) != 0
CombiningMarks == {"U+0300", "U+0301", "U+0327"}

\* unicodedata.normalize("NFKD", c) of one character
NFKD(c) ==
    CASE c = "U+00E9" -> <<"e", "U+0301">>      \* e acute
      [] c = "U+00E0" -> <<"a", "U+0300">>      \* a grave
      [] c = "U+00E7" -> <<"c", "U+0327">>      \* c cedilla
      [] c = "U+FB01" -> <<"f", "i">>           \* ligature fi
      [] OTHER        -> <<c>>

remove_accents(text) ==
    LET nfkd_form == Flatten([i \in 1..Len(text) |-> NFKD(text[i])])
        NotCombining(c) == c \notin CombiningMarks
    IN  SelectSeq(nfkd_form, NotCombining)

\* text[:text.find("||")]
KeepFullDescription(text) == PySlice(text, 0, PyFind(text, Separator))

prepare_text(text_annotations_str_lower) ==
    LET t1 == KeepFullDescription(text_annotations_str_lower)
        t2 == remove_accents(t1)
    IN  PyReplace(PyReplace(t2, "'", " "), "-", " ")

(***************************************************************************)
(* City and load_cities_fr.                                                *)
(***************************************************************************)

UpperCase == <<"A", "B", "C", "D", "E", "F", "G", "H", "I", "J", "K", "L", "M",
               "N", "O", "P", "Q", "R", "S", "T", "U", "V", "W", "X", "Y", "Z">>
LowerCase == <<"a", "b", "c", "d", "e", "f", "g", "h", "i", "j", "k", "l", "m",
               "n", "o", "p", "q", "r", "s", "t", "u", "v", "w", "x", "y", "z">>

\* str.lower()
PyLower(s) ==
    [i \in 1..Len(s) |->
        IF \E k \in 1..26 : UpperCase[k] = s[i]
        THEN LowerCase[CHOOSE k \in 1..26 : UpperCase[k] = s[i]]
        ELSE s[i]]

\* The frozen dataclass: equality and hash on the three fields.
City(name, postal_code, coordinates) ==
    [name |-> name, postal_code |-> postal_code, coordinates |-> coordinates]

\* dict.get(key): None when the key is absent
DictGet(d, key) == IF key \in DOMAIN d THEN d[key] ELSE None

\* The body of the loop over json_data: the City of one item.
CityOfItem(item) ==
    LET city_data == item.fields
        coords == DictGet(city_data, "coordonnees_gps")
    IN  City(PyLower(city_data.nom_de_la_commune), city_data.code_postal, coords)

\* set(cities)
SetOf(s) == {s[i] : i \in 1..Len(s)}

\* list(a_set): the elements once each, in an order the code does not fix
ListsOf(S) ==
    {l \in [1..Cardinality(S) -> S] : \A i, j \in 1..Cardinality(S) :
        l[i] = l[j] => i = j}

\* Variant: `return cities`, the list as collected
KeepDuplicates(cs) == {cs}

\* return list(set(cities))
RemoveDuplicates(cs) == ListsOf(SetOf(cs))

(***************************************************************************)
(* flashtext.KeywordProcessor, as AddressExtractor uses it: the trie is    *)
(* the function from each keyword to its clean name (a City); a trie node  *)
(* is the prefix that leads to it.                                         *)
(***************************************************************************)

EmptyTrie == [k \in {} |-> None]

\* KeywordProcessor.add_keyword(keyword, clean_name), case-insensitive:
\* an empty keyword is ignored, a keyword already present is overwritten.
add_keyword(trie, keyword, clean_name) ==
    IF keyword = << >> THEN trie
    ELSE LET kw == PyLower(keyword)
         IN  [k \in DOMAIN trie \cup {kw} |->
                 IF k = kw THEN clean_name ELSE trie[k]]

\* AddressExtractor.__init__: add every city under its name
RECURSIVE BuildProcessor(_, _)
BuildProcessor(trie, cs) ==
    IF cs = << >> THEN trie
    ELSE BuildProcessor(add_keyword(trie, Head(cs).name, Head(cs)), Tail(cs))

\* non_word_boundaries = set(string.digits + string.ascii_letters + '_')
WordChars == Digits \cup SetOf(UpperCase) \cup SetOf(LowerCase) \cup {"_"}

IsPrefix(p, k) == Len(p) <= Len(k) /\ SubSeq(k, 1, Len(p)) = p

\* char in current_dict
HasChild(trie, node, char) ==
    \E k \in DOMAIN trie : IsPrefix(Append(node, char), k)

\* self._keyword in current_dict
IsKeyword(trie, node) == node \in DOMAIN trie

\* The inner loop of extract_keywords that looks for a longer keyword from
\* idy on; acc is (is_longer_seq_found, longest_sequence_found,
\* sequence_end_pos).
RECURSIVE InnerScan(_, _, _, _, _)
InnerScan(trie, s, idy, node, acc) ==
    IF idy >= Len(s)
    THEN \* while ... else: the end of the sentence was reached
         IF IsKeyword(trie, node)
         THEN [longer |-> TRUE, seq |-> Some(trie[node]), end |-> idy]
         ELSE acc
    ELSE LET inner_char == s[idy + 1]
             acc1 == IF inner_char \notin WordChars /\ IsKeyword(trie, node)
                     THEN [longer |-> TRUE, seq |-> Some(trie[node]), end |-> idy]
                     ELSE acc
         IN  IF HasChild(trie, node, inner_char)
             THEN InnerScan(trie, s, idy + 1, Append(node, inner_char), acc1)
             ELSE acc1

\* idy = idx + 1; while idy < len and sentence[idy] is a word character
RECURSIVE SkipWord(_, _)
SkipWord(s, idy) ==
    IF idy < Len(s) /\ s[idy + 1] \in WordChars THEN SkipWord(s, idy + 1) ELSE idy

\* One pass of the main loop of extract_keywords at position st.idx, up to
\* the end-of-sentence test: the new idx, trie node, reset flag and matches.
\* st is (idx, current_dict, sequence_start_pos, keywords_extracted).
ScanChar(trie, s, st) ==
    LET idx == st.idx
        node == st.node
        char == s[idx + 1]
        root == << >>
    IN  IF char \notin WordChars
        THEN IF IsKeyword(trie, node) \/ HasChild(trie, node, char)
             THEN LET acc0 == [longer |-> FALSE,
                               seq |-> IF IsKeyword(trie, node)
                                       THEN Some(trie[node]) ELSE None,
                               end |-> idx]
                      acc == IF HasChild(trie, node, char)
                             THEN InnerScan(trie, s, idx + 1, Append(node, char), acc0)
                             ELSE acc0
                      idx1 == IF acc.longer THEN acc.end ELSE idx
                  IN  [idx |-> idx1, node |-> root, reset |-> TRUE,
                       out |-> IF acc.seq # None
                               THEN Append(st.out, <<acc.seq[1], st.start, idx1>>)
                               ELSE st.out]
             ELSE [idx |-> idx, node |-> root, reset |-> TRUE, out |-> st.out]
        ELSE IF HasChild(trie, node, char)
             THEN [idx |-> idx, node |-> Append(node, char), reset |-> FALSE,
                   out |-> st.out]
             ELSE [idx |-> SkipWord(s, idx + 1), node |-> root, reset |-> TRUE,
                   out |-> st.out]

\* The rest of the pass: a sequence discovered at the end of the sentence is
\* added, idx moves on, and a reset moves sequence_start_pos to it.
ScanStep(trie, s, st) ==
    LET c == ScanChar(trie, s, st)
    IN  [idx |-> c.idx + 1,
         node |-> c.node,
         start |-> IF c.reset THEN c.idx + 1 ELSE st.start,
         out |-> IF c.idx + 1 >= Len(s) /\ IsKeyword(trie, c.node)
                 THEN Append(c.out, <<trie[c.node], st.start, Len(s)>>)
                 ELSE c.out]

\* n passes of `while idx < sentence_len`, by halves; a pass when the loop
\* is over changes nothing.
RECURSIVE ScanPasses(_, _, _, _)
ScanPasses(trie, s, st, n) ==
    IF n = 0 \/ st.idx >= Len(s) THEN st
    ELSE IF n = 1 THEN ScanStep(trie, s, st)
    ELSE ScanPasses(trie, s, ScanPasses(trie, s, st, n \div 2), n - n \div 2)

\* KeywordProcessor.extract_keywords(sentence, span_info=True): the list of
\* (clean name, start, end). Every pass moves idx on, so the loop is over
\* after at most len(sentence) passes.
extract_keywords(trie, sentence) ==
    IF sentence = << >> THEN << >>
    ELSE ScanPasses(trie, PyLower(sentence),
                    [idx |-> 0, node |-> << >>, start |-> 0, out |-> << >>],
                    Len(sentence)).out

find_city_names(trie, text) == extract_keywords(trie, text)

(***************************************************************************)
(* re.search of (?:[^0-9]|^)(postal_code)(?:[^0-9]|$) in sub_text, for a   *)
(* postal code made of digits.                                             *)
(***************************************************************************)

\* The pattern's tail from offset q on: the postal code, then a character
\* that is no digit (consumed) or the end of the string. The end offset of
\* the match, or None.
MatchCodeAt(postal_code, sub_text, q) ==
    LET e == q + Len(postal_code)
    IN  IF ~StartsWithAt(sub_text, postal_code, q) THEN None
        ELSE IF e < Len(sub_text) /\ sub_text[e + 1] \notin Digits THEN Some(e + 1)
        ELSE IF e = Len(sub_text) THEN Some(e)
        ELSE None

\* Variant: the pattern (postal_code)(?:[^0-9]|$), without the leading
\* alternative
MatchAtNoLead(postal_code, sub_text, m) ==
    LET end == MatchCodeAt(postal_code, sub_text, m)
    IN  IF end = None THEN None ELSE Some([start |-> m, end |-> end[1]])

\* The match that starts at offset m, or None: first with a leading
\* character that is no digit, then, at the start of the string, without.
MatchAt(postal_code, sub_text, m) ==
    LET withLead == IF m < Len(sub_text) /\ sub_text[m + 1] \notin Digits
                    THEN MatchCodeAt(postal_code, sub_text, m + 1)
                    ELSE None
        atStart == IF m = 0 THEN MatchCodeAt(postal_code, sub_text, m) ELSE None
        end == IF withLead # None THEN withLead ELSE atStart
    IN  IF end = None THEN None ELSE Some([start |-> m, end |-> end[1]])

\* re.search: the match at the leftmost offset that has one
re_search(postal_code, sub_text) ==
    LET hits == {m \in 0..Len(sub_text) : MatchAt(postal_code, sub_text, m) # None}
    IN  IF hits = {} THEN None
        ELSE MatchAt(postal_code, sub_text, CHOOSE m \in hits : \A k \in hits : m <= k)

max_distance == 10

\* The window of the text searched around a city's span.
sub_start(text, span) == Max(0, span[1] - max_distance)
sub_end(text, span) == Min(Len(text), span[2] + max_distance)

\* Variant: the offsets of the match are added to span[0], not to sub_start
find_nearby_postal_code_from_span(text, city, span) ==
    LET s0 == sub_start(text, span)
        sub_text == PySlice(text, s0, sub_end(text, span))
        match == re_search(city.postal_code, sub_text)
    IN  IF match = None THEN None
        ELSE Some(<<PySlice(sub_text, match[1].start, match[1].end),
                    span[1] + match[1].start, span[1] + match[1].end>>)

\* AddressExtractor.find_nearby_postal_code: None, or the tuple
\* (match.group(), sub_start + match.start(), sub_start + match.end())
find_nearby_postal_code(text, city, span) ==
    LET s0 == sub_start(text, span)
        sub_text == PySlice(text, s0, sub_end(text, span))
        match == re_search(city.postal_code, sub_text)
    IN  IF match = None THEN None
        ELSE Some(<<PySlice(sub_text, match[1].start, match[1].end),
                    s0 + match[1].start, s0 + match[1].end>>)

surround_distance == 30

\* Variant: text[address_start:address_end], the bounds not clipped
AddressUnclipped(text, span, nearby_code) ==
    LET address_start == Min(span[1], nearby_code[2]) - surround_distance
        address_end == Max(span[2], nearby_code[3]) + surround_distance
    IN  PySlice(text, address_start, address_end)

\* text[max(0, address_start):min(len(text), address_end)]
Address(text, span, nearby_code) ==
    LET address_start == Min(span[1], nearby_code[2]) - surround_distance
        address_end == Max(span[2], nearby_code[3]) + surround_distance
    IN  PySlice(text, Max(0, address_start), Min(Len(text), address_end))

(***************************************************************************)
(* OCRResult, as location.py reads it: text_annotations (each with a       *)
(* locale, None when absent) and text_annotations_str_lower.               *)
(***************************************************************************)

Annotation(locale) == [locale |-> locale]

OCRResult(text_annotations, text) ==
    [text_annotations |-> text_annotations, text_annotations_str_lower |-> text]

\* Variant: the locale of the last text annotation
get_locale_of_last(ocr_result) ==
    IF Len(ocr_result.text_annotations) > 0
    THEN ocr_result.text_annotations[Len(ocr_result.text_annotations)].locale
    ELSE None

get_locale(ocr_result) ==
    IF Len(ocr_result.text_annotations) > 0
    THEN ocr_result.text_annotations[1].locale
    ELSE None

EmptyLocations == [cities |-> << >>, full_cities |-> << >>, addresses |-> << >>]

\* [(c[0].name, *c[1:]) for c in cities]
CityTriples(matches) ==
    [k \in 1..Len(matches) |-> <<matches[k][1].name, matches[k][2], matches[k][3]>>]

\* Variant: cities holds the linked cities only
LocationsOfLinked(matches, full_cities, addresses) ==
    [cities |-> [k \in 1..Len(full_cities) |-> full_cities[k][2]],
     full_cities |-> full_cities,
     addresses |-> addresses]

\* The dict extract_location returns in the French case.
Locations(matches, full_cities, addresses) ==
    [cities |-> CityTriples(matches),
     full_cities |-> full_cities,
     addresses |-> addresses]

\* extract_location run from entry to return, over the keyword processor
\* `trie`.
extract_location(trie, ocr_result) ==
    IF get_locale(ocr_result) # Some("fr") THEN EmptyLocations
    ELSE LET text == prepare_text(ocr_result.text_annotations_str_lower)
             matches == find_city_names(trie, text)
             span(k) == <<matches[k][2], matches[k][3]>>
             nearby(k) == find_nearby_postal_code(text, matches[k][1], span(k))
         IN  Locations(
                 matches,
                 Flatten([k \in 1..Len(matches) |->
                     IF nearby(k) = None THEN << >>
                     ELSE <<<<nearby(k)[1],
                              <<matches[k][1].name, span(k)[1], span(k)[2]>>>>>>]),
                 Flatten([k \in 1..Len(matches) |->
                     IF nearby(k) = None THEN << >>
                     ELSE <<Address(text, span(k), nearby(k)[1])>>]))

(***************************************************************************)
(* Bounds and input sets.                                                  *)
(***************************************************************************)

MaxTokens == 4
MaxConcTokens == 2
MaxRawLen == 3
MaxRecords == 2

SeqsUpTo(S, n) == UNION {[1..k -> S] : k \in 0..n}

Paris == <<"p", "a", "r", "i", "s">>
Bio == <<"b", "i", "o">>
Code75001 == <<"7", "5", "0", "0", "1">>
Code69000 == <<"6", "9", "0", "0", "0">>

Threads == {"t1", "t2"}

\* Pieces of OCR text: city names, a postal code, a digit, a space, a word
\* between spaces, and a run longer than surround_distance.
Rue == <<" ", "r", "u", "e", " ">>
Dashes == [k \in 1..(surround_distance + 1) |-> "-"]
Tokens == {Paris, Bio, Code75001, <<"9">>, <<" ">>, Rue, Dashes}
ConcTokens == {Paris, <<" ">> \o Code75001, <<" ">> \o Bio}

\* How the text ends: with the full description alone, with the separator
\* and the per-word annotations, or with a postal code before them.
Tails == {<< >>, Separator \o Bio, <<" ">> \o Code75001 \o Separator \o Bio}

Texts == {Flatten(ts) \o tail : ts \in SeqsUpTo(Tokens, MaxTokens), tail \in Tails}
ConcTexts ==
    {Flatten(ts) \o Separator : ts \in SeqsUpTo(ConcTokens, MaxConcTokens)}

AnnotationLists ==
    {<< >>,
     <<Annotation(Some("fr"))>>,
     <<Annotation(None)>>,
     <<Annotation(Some("fr-FR")), Annotation(Some("fr"))>>}

OCRResults == {OCRResult(a, t) : a \in AnnotationLists, t \in Texts}
ConcOCRResults ==
    {OCRResult(a, t) : a \in {<<Annotation(Some("fr"))>>, <<Annotation(None)>>},
                       t \in ConcTexts}

\* City sequences an extractor is built over. Two cities are named "bio":
\* the one added last is the one the keyword carries.
Gazetteers ==
    {<<City(Paris, Code75001, None), City(Bio, Code69000, None),
       City(Bio, Code75001, Some(<<48, 2>>))>>,
     <<City(Bio, Code75001, Some(<<48, 2>>)), City(Bio, Code69000, None),
       City(Paris, Code75001, None)>>}

\* JSON records of the dataset: "Bio"/"BIO" differ in case only, and
\* code_commune_insee is a field outside the City schema.
JsonNames == {<<"B", "I", "O">>, <<"B", "i", "o">>}
JsonItems ==
    {[fields |-> [nom_de_la_commune |-> n, code_postal |-> c,
                  code_commune_insee |-> x]] :
        n \in JsonNames, c \in {Code75001, Code69000}, x \in {"75101", "69123"}}
    \cup
    {[fields |-> [nom_de_la_commune |-> n, code_postal |-> c,
                  code_commune_insee |-> "75101",
                  coordonnees_gps |-> Some(<<48, 2>>)]] :
        n \in JsonNames, c \in {Code75001}}

RawAlphabet == {"a", "|", "'", "-", " ", "U+00E9", "U+FB01", "U+0301"}

\* Basic Latin and the French accented letters
FrenchChars == {"a", "|", "'", "-", " ", "U+00E9"}

(***************************************************************************)
(* extract_location, one action per step of the call of a thread.          *)
(***************************************************************************)

IdleFrame ==
    [pc |-> "idle", ocr_result |-> None, text |-> None, matches |-> None,
     i |-> 0, full_cities |-> << >>, addresses |-> << >>, result |-> None]

\* extract_location(ocr_result) is entered
Call(t, inputs) ==
    /\ call[t].pc = "idle"
    /\ \E ocr \in inputs :
         call' = [call EXCEPT ![t] = [IdleFrame EXCEPT !.pc = "gate",
                                                       !.ocr_result = Some(ocr)]]
    /\ UNCHANGED <<json_data, load_pc, load_cities, load_result, raw, once,
                   twice, cities, cities_processor>>

\* locale = get_locale(ocr_result); if locale != "fr": return the empty dict
Gate(t) ==
    /\ call[t].pc = "gate"
    /\ LET locale == get_locale(call[t].ocr_result[1])
       IN  call' = [call EXCEPT ![t] =
                IF locale # Some("fr")
                THEN [@ EXCEPT !.pc = "done", !.result = Some(EmptyLocations)]
                ELSE [@ EXCEPT !.pc = "prepare"]]
    /\ UNCHANGED <<json_data, load_pc, load_cities, load_result, raw, once,
                   twice, cities, cities_processor>>

\* text = self.prepare_text(ocr_result.text_annotations_str_lower)
Prepare(t) ==
    /\ call[t].pc = "prepare"
    /\ call' = [call EXCEPT ![t] = [@ EXCEPT
            !.pc = "find",
            !.text = Some(prepare_text(
                        call[t].ocr_result[1].text_annotations_str_lower))]]
    /\ UNCHANGED <<json_data, load_pc, load_cities, load_result, raw, once,
                   twice, cities, cities_processor>>

\* Variant: `self.cities = self.find_city_names(text)`, the matches stored in
\* the extractor
FindCityNamesIntoSelf(t) ==
    /\ call[t].pc = "find"
    /\ call' = [call EXCEPT ![t] = [@ EXCEPT
            !.pc = "loop", !.i = 1,
            !.matches = Some(find_city_names(cities_processor, call[t].text[1]))]]
    /\ cities' = find_city_names(cities_processor, call[t].text[1])
    /\ UNCHANGED <<json_data, load_pc, load_cities, load_result, raw, once,
                   twice, cities_processor>>

\* cities = self.find_city_names(text)
FindCityNames(t) ==
    /\ call[t].pc = "find"
    /\ call' = [call EXCEPT ![t] = [@ EXCEPT
            !.pc = "loop", !.i = 1,
            !.matches = Some(find_city_names(cities_processor, call[t].text[1]))]]
    /\ UNCHANGED <<json_data, load_pc, load_cities, load_result, raw, once,
                   twice, cities, cities_processor>>

\* One pass of `for city, *span in cities`
Link(t) ==
    /\ call[t].pc = "loop"
    /\ call[t].i <= Len(call[t].matches[1])
    /\ LET f == call[t]
           text == f.text[1]
           m == f.matches[1][f.i]
           city == m[1]
           span == <<m[2], m[3]>>
           nearby_code == find_nearby_postal_code(text, city, span)
       IN  call' = [call EXCEPT ![t] =
                IF nearby_code # None
                THEN [@ EXCEPT
                        !.i = f.i + 1,
                        !.full_cities = Append(f.full_cities,
                            <<nearby_code[1], <<city.name, span[1], span[2]>>>>),
                        !.addresses = Append(f.addresses,
                            Address(text, span, nearby_code[1]))]
                ELSE [@ EXCEPT !.i = f.i + 1]]
    /\ UNCHANGED <<json_data, load_pc, load_cities, load_result, raw, once,
                   twice, cities, cities_processor>>

\* The loop is over: return the dict
Return(t) ==
    /\ call[t].pc = "loop"
    /\ call[t].i > Len(call[t].matches[1])
    /\ call' = [call EXCEPT ![t] = [@ EXCEPT
            !.pc = "done",
            !.result = Some(Locations(call[t].matches[1], call[t].full_cities,
                                      call[t].addresses))]]
    /\ UNCHANGED <<json_data, load_pc, load_cities, load_result, raw, once,
                   twice, cities, cities_processor>>

\* The caller has the result; the thread may call again
Finish(t) ==
    /\ call[t].pc = "done"
    /\ call' = [call EXCEPT ![t] = IdleFrame]
    /\ UNCHANGED <<json_data, load_pc, load_cities, load_result, raw, once,
                   twice, cities, cities_processor>>

\* AddressExtractor.__init__(cities)
Constructed(cs) ==
    /\ cities = cs
    /\ cities_processor = BuildProcessor(EmptyTrie, cs)

NoLoad ==
    /\ json_data = << >>
    /\ load_pc = "off"
    /\ load_cities = << >>
    /\ load_result = None

NoPrepare ==
    /\ raw = << >>
    /\ once = None
    /\ twice = None

NoExtractor ==
    /\ cities = << >>
    /\ cities_processor = EmptyTrie
    /\ call = [t \in Threads |-> IdleFrame]

\* One caller, every OCR result of the bounded set
Init ==
    /\ NoLoad
    /\ NoPrepare
    /\ \E cs \in Gazetteers : Constructed(cs)
    /\ call = [t \in Threads |-> IdleFrame]

Next ==
    \/ Call("t1", OCRResults)
    \/ Gate("t1")
    \/ Prepare("t1")
    \/ FindCityNames("t1")
    \/ Link("t1")
    \/ Return("t1")
    \/ Finish("t1")

Spec == Init /\ [][Next]_vars

\* Two threads call extract_location on one shared extractor
NextConc ==
    \E t \in Threads :
        \/ Call(t, ConcOCRResults)
        \/ Gate(t)
        \/ Prepare(t)
        \/ FindCityNames(t)
        \/ Link(t)
        \/ Return(t)
        \/ Finish(t)

SpecConc == Init /\ [][NextConc]_vars

(***************************************************************************)
(* load_cities_fr, from the parsed JSON on.                                *)
(***************************************************************************)

\* One pass of `for item in json_data`: cities.append(City(...))
LoadItem ==
    /\ load_pc = "loop"
    /\ Len(load_cities) < Len(json_data)
    /\ load_cities' = Append(load_cities, CityOfItem(json_data[Len(load_cities) + 1]))
    /\ UNCHANGED <<json_data, load_pc, load_result, raw, once, twice, cities,
                   cities_processor, call>>

\* return list(set(cities))
LoadReturn ==
    /\ load_pc = "loop"
    /\ Len(load_cities) = Len(json_data)
    /\ \E l \in RemoveDuplicates(load_cities) : load_result' = Some(l)
    /\ load_pc' = "done"
    /\ UNCHANGED <<json_data, load_cities, raw, once, twice, cities,
                   cities_processor, call>>

InitLoad ==
    /\ json_data \in SeqsUpTo(JsonItems, MaxRecords)
    /\ load_pc = "loop"
    /\ load_cities = << >>
    /\ load_result = None
    /\ NoPrepare
    /\ NoExtractor

NextLoad == LoadItem \/ LoadReturn

SpecLoad == InitLoad /\ [][NextLoad]_vars

(***************************************************************************)
(* prepare_text applied to a string, and to its own output.                *)
(***************************************************************************)

PrepareOnce ==
    /\ once = None
    /\ once' = Some(prepare_text(raw))
    /\ UNCHANGED <<json_data, load_pc, load_cities, load_result, raw, twice,
                   cities, cities_processor, call>>

PrepareTwice ==
    /\ once # None
    /\ twice = None
    /\ twice' = Some(prepare_text(once[1]))
    /\ UNCHANGED <<json_data, load_pc, load_cities, load_result, raw, once,
                   cities, cities_processor, call>>

InitPrepare ==
    /\ NoLoad
    /\ raw \in SeqsUpTo(RawAlphabet, MaxRawLen)
    /\ once = None
    /\ twice = None
    /\ NoExtractor

NextPrepare == PrepareOnce \/ PrepareTwice

SpecPrepare == InitPrepare /\ [][NextPrepare]_vars

(***************************************************************************)
(* Properties.                                                             *)
(***************************************************************************)

\* The frames of the calls that took the French path and returned.
Returned == {call[t] : t \in {u \in Threads : call[u].pc = "done" /\ call[u].text # None}}

\* The frames of all calls that have normalized their text.
Active == {call[t] : t \in {u \in Threads : call[u].text # None}}

IsSpan(start, end, n) == 0 <= start /\ start < end /\ end <= n

\* The first text annotation exists and its locale is exactly "fr".
FirstLocaleIsFr(ocr) ==
    /\ ocr.text_annotations # << >>
    /\ ocr.text_annotations[1].locale = <<"fr">>

\* C1: a call whose OCR result has no text annotation, or a first annotation
\* whose locale is not exactly "fr", returns the three empty lists, for every
\* text, and has neither normalized the text nor matched cities.
C1_NonFrenchReturnsEmpty ==
    \A t \in Threads :
        (call[t].pc = "done" /\ ~FirstLocaleIsFr(call[t].ocr_result[1])) =>
            /\ call[t].result =
                 <<[cities |-> << >>, full_cities |-> << >>, addresses |-> << >>]>>
            /\ call[t].text = None
            /\ call[t].matches = None

\* A call without any text annotation, over a text that names a city with its
\* postal code, returned the empty result.
C1_Witness ==
    \E t \in Threads :
        /\ call[t].pc = "done"
        /\ call[t].ocr_result[1].text_annotations = << >>
        /\ call[t].ocr_result[1].text_annotations_str_lower =
             Paris \o <<" ">> \o Code75001 \o Separator \o Bio
        /\ call[t].result = <<EmptyLocations>>

\* Where the digits of the postal code lie in a returned match
\* (match string, start, end): the match may carry one character that is no
\* digit on either side.
CodeStart(nearby) == nearby[2] + (IF nearby[1][1] \in Digits THEN 0 ELSE 1)
CodeEnd(nearby) == nearby[3] - (IF nearby[1][Len(nearby[1])] \in Digits THEN 0 ELSE 1)

WindowStart(city_triple) == Max(0, city_triple[2] - max_distance)
WindowEnd(text, city_triple) == Min(Len(text), city_triple[3] + max_distance)

\* The city match a full_cities entry was made from.
MatchOf(f, entry) ==
    CHOOSE m \in SetOf(f.matches[1]) : <<m[1].name, m[2], m[3]>> = entry[2]

\* C2 (as stated): in the full text, the character before and the character
\* after the matched postal-code digits, when they exist, are no digits.
C2_DigitBoundedInText ==
    \A f \in Active : \A k \in 1..Len(f.full_cities) :
        LET text == f.text[1]
            nearby == f.full_cities[k][1]
        IN  /\ CodeStart(nearby) > 0 => text[CodeStart(nearby)] \notin Digits
            /\ CodeEnd(nearby) < Len(text) => text[CodeEnd(nearby) + 1] \notin Digits

\* C2 (amended): the matched digits are the city's postal code and lie in the
\* window around the city, and inside the window the character before and the
\* character after them, when the window holds them, are no digits.
C2_DigitBoundedInWindow ==
    \A f \in Active : \A k \in 1..Len(f.full_cities) :
        LET text == f.text[1]
            nearby == f.full_cities[k][1]
            w0 == WindowStart(f.full_cities[k][2])
            w1 == WindowEnd(text, f.full_cities[k][2])
        IN  /\ w0 <= CodeStart(nearby)
            /\ CodeStart(nearby) < CodeEnd(nearby)
            /\ CodeEnd(nearby) <= w1
            /\ SubSeq(text, CodeStart(nearby) + 1, CodeEnd(nearby)) =
                 MatchOf(f, f.full_cities[k])[1].postal_code
            /\ CodeStart(nearby) > w0 => text[CodeStart(nearby)] \notin Digits
            /\ CodeEnd(nearby) < w1 => text[CodeEnd(nearby) + 1] \notin Digits

\* A postal code was linked at the very start of the window, where the full
\* text has a digit just before it.
C2_Witness ==
    \E f \in Active : \E k \in 1..Len(f.full_cities) :
        LET nearby == f.full_cities[k][1]
        IN  /\ CodeStart(nearby) = WindowStart(f.full_cities[k][2])
            /\ CodeStart(nearby) > 0
            /\ f.text[1][CodeStart(nearby)] \in Digits

\* The window [w0, w1) of the text holds the postal code at offset q, with
\* no digit next to it inside the window.
OccursAt(text, postal_code, w0, w1, q) ==
    /\ w0 <= q
    /\ q + Len(postal_code) <= w1
    /\ SubSeq(text, q + 1, q + Len(postal_code)) = postal_code
    /\ q > w0 => text[q] \notin Digits
    /\ q + Len(postal_code) < w1 => text[q + Len(postal_code) + 1] \notin Digits

Occurrences(text, postal_code, w0, w1) ==
    {q \in 0..Len(text) : OccursAt(text, postal_code, w0, w1, q)}

\* The city match m of the text has a postal code nearby.
HasNearbyCode(text, m) ==
    Occurrences(text, m[1].postal_code,
                WindowStart(<<m[1].name, m[2], m[3]>>),
                WindowEnd(text, <<m[1].name, m[2], m[3]>>)) # {}

\* C3: a returned (match, start, end) is the first digit-bounded occurrence
\* of the city's postal code in the window, in absolute offsets:
\* text[start:end] and the match string are the postal code; and a city match
\* gets no postal code exactly when its window holds no such occurrence.
C3_SpanIsPostalCode ==
    \A f \in Active :
        /\ \A k \in 1..Len(f.full_cities) :
             LET text == f.text[1]
                 nearby == f.full_cities[k][1]
                 postal_code == MatchOf(f, f.full_cities[k])[1].postal_code
                 occ == Occurrences(text, postal_code,
                                    WindowStart(f.full_cities[k][2]),
                                    WindowEnd(text, f.full_cities[k][2]))
             IN  /\ nearby[1] = postal_code
                 /\ nearby[3] - nearby[2] = Len(postal_code)
                 /\ SubSeq(text, nearby[2] + 1, nearby[3]) = postal_code
                 /\ nearby[2] \in occ
                 /\ \A q \in occ : nearby[2] <= q
        /\ f.matches # None =>
             \A j \in 1..(f.i - 1) :
                 HasNearbyCode(f.text[1], f.matches[1][j]) <=>
                     \E k \in 1..Len(f.full_cities) :
                         f.full_cities[k][2] = <<f.matches[1][j][1].name,
                                                 f.matches[1][j][2],
                                                 f.matches[1][j][3]>>

\* C6: every span of a returned result lies in the normalized text:
\* 0 <= start < end <= len(text), for the entries of cities and for both
\* spans of the entries of full_cities.
C6_SpansWithinText ==
    \A f \in Returned :
        LET n == Len(f.text[1])
            r == f.result[1]
        IN  /\ \A k \in 1..Len(r.cities) : IsSpan(r.cities[k][2], r.cities[k][3], n)
            /\ \A k \in 1..Len(r.full_cities) :
                 /\ IsSpan(r.full_cities[k][1][2], r.full_cities[k][1][3], n)
                 /\ IsSpan(r.full_cities[k][2][2], r.full_cities[k][2][3], n)

\* A result with a linked city whose postal code ends the text, after a city
\* that starts beyond the first max_distance characters.
C6_Witness ==
    \E f \in Returned :
        \E k \in 1..Len(f.result[1].full_cities) :
            /\ f.result[1].full_cities[k][1][3] = Len(f.text[1])
            /\ f.result[1].full_cities[k][2][2] > max_distance

\* C7: in the French case, cities holds (name, start, end) of every city
\* match in match order; full_cities and addresses hold one entry for each
\* match that has a postal code nearby and none for the others, in match
\* order; so they have the same length, at most that of cities, and every city
\* triple of full_cities is in cities.
C7_ResultStructure ==
    \A f \in Returned :
        LET text == f.text[1]
            r == f.result[1]
            ms == f.matches[1]
            Linked(m) == HasNearbyCode(text, m)
            linked == SelectSeq(ms, Linked)
        IN  /\ r.cities = [k \in 1..Len(ms) |-> <<ms[k][1].name, ms[k][2], ms[k][3]>>]
            /\ Len(r.full_cities) = Len(linked)
            /\ Len(r.addresses) = Len(linked)
            /\ Len(r.full_cities) <= Len(r.cities)
            /\ \A k \in 1..Len(r.full_cities) :
                 /\ r.full_cities[k][2] =
                      <<linked[k][1].name, linked[k][2], linked[k][3]>>
                 /\ \E j \in 1..Len(r.cities) : r.cities[j] = r.full_cities[k][2]
                 /\ \E a \in 0..r.full_cities[k][2][2] :
                      /\ r.addresses[k] = SubSeq(text, a + 1, a + Len(r.addresses[k]))
                      /\ r.full_cities[k][2][3] <= a + Len(r.addresses[k])

\* A result with two city matches of which only the second is linked.
C7_Witness ==
    \E f \in Returned :
        /\ Len(f.result[1].cities) = 2
        /\ Len(f.result[1].full_cities) = 1
        /\ f.result[1].full_cities[1][2] = f.result[1].cities[2]

\* C8: the address of a linked pair is
\* text[max(0, min(starts) - 30) : min(len(text), max(ends) + 30)]; the
\* bounds are within [0, len(text)], and the snippet contains the city name
\* and the postal-code match at their offsets.
C8_AddressSnippet ==
    \A f \in Returned : \A k \in 1..Len(f.result[1].addresses) :
        LET text == f.text[1]
            address == f.result[1].addresses[k]
            postal == f.result[1].full_cities[k][1]
            city == f.result[1].full_cities[k][2]
            lo == Max(0, Min(city[2], postal[2]) - surround_distance)
            hi == Min(Len(text), Max(city[3], postal[3]) + surround_distance)
        IN  /\ 0 <= lo /\ lo <= hi /\ hi <= Len(text)
            /\ address = SubSeq(text, lo + 1, hi)
            /\ lo <= city[2] /\ city[3] <= hi
            /\ lo <= postal[2] /\ postal[3] <= hi
            /\ SubSeq(address, city[2] - lo + 1, city[3] - lo) = city[1]
            /\ SubSeq(address, postal[2] - lo + 1, postal[3] - lo) = postal[1]

\* An address that starts after the start of the text and is cut at its end.
C8_Witness ==
    \E f \in Returned : \E k \in 1..Len(f.result[1].addresses) :
        LET postal == f.result[1].full_cities[k][1]
            city == f.result[1].full_cities[k][2]
        IN  /\ Min(city[2], postal[2]) - surround_distance > 0
            /\ Max(city[3], postal[3]) + surround_distance > Len(f.text[1])

\* C4: prepare_text(prepare_text(s)) = prepare_text(s) for every string s.
C4_PrepareIdempotent == twice # None => twice = once

\* The full-description prefix of a string: what precedes the first
\* separator, the whole string when it has none.
TruncatedAtSeparator(s) ==
    IF \E i \in 0..Len(s) : StartsWithAt(s, Separator, i)
    THEN SubSeq(s, 1, CHOOSE i \in 0..Len(s) :
                        /\ StartsWithAt(s, Separator, i)
                        /\ \A j \in 0..(i - 1) : ~StartsWithAt(s, Separator, j))
    ELSE s

\* The normalized form of one French character.
NormalizedChar(c) ==
    CASE c = "U+00E9" -> "e"
      [] c = "'"      -> " "
      [] c = "-"      -> " "
      [] OTHER        -> c

\* C5: for a string of basic Latin and French accented characters, the output
\* of prepare_text has the length of the full-description prefix, and its
\* character at each position is the normalized form of the prefix's.
C5_PreparePreservesOffsets ==
    (once # None /\ SetOf(raw) \subseteq FrenchChars) =>
        LET prefix == TruncatedAtSeparator(raw)
        IN  /\ Len(once[1]) = Len(prefix)
            /\ \A i \in 1..Len(prefix) : once[1][i] = NormalizedChar(prefix[i])

\* The City of a record: lowercased name, postal code, coordinates or None.
Projected(item) ==
    [name |-> PyLower(item.fields.nom_de_la_commune),
     postal_code |-> item.fields.code_postal,
     coordinates |-> IF "coordonnees_gps" \in DOMAIN item.fields
                     THEN item.fields.coordonnees_gps ELSE << >>]

\* C9: the list load_cities_fr returns has no two equal cities and holds
\* exactly the distinct (lowercased name, postal code, coordinates) of the
\* records.
C9_LoadDeduplicates ==
    load_pc = "done" =>
        LET l == load_result[1]
        IN  /\ \A i, j \in 1..Len(l) : l[i] = l[j] => i = j
            /\ SetOf(l) = {Projected(json_data[k]) : k \in 1..Len(json_data)}

\* Two records that differ only in a field outside the City schema gave one
\* city.
C9_Witness ==
    /\ load_pc = "done"
    /\ Len(json_data) = 2
    /\ json_data[1] # json_data[2]
    /\ json_data[1].fields.nom_de_la_commune = json_data[2].fields.nom_de_la_commune
    /\ Len(load_result[1]) = 1

\* C10: no step of an extract_location call changes the extractor's cities
\* or its keyword processor, and each call on the shared extractor returns
\* what a call alone on an extractor freshly built over the same cities
\* returns for its OCR result.
C10_SharedExtractorReadOnly ==
    /\ [][cities' = cities /\ cities_processor' = cities_processor]_vars
    /\ [](\A t \in Threads :
            call[t].pc = "done" =>
                call[t].result =
                    <<extract_location(BuildProcessor(EmptyTrie, cities),
                                       call[t].ocr_result[1])>>)

\* One thread has returned a linked city while the other, called with another
\* OCR result, is inside its loop over the city matches.
C10_Witness ==
    \E t, u \in Threads :
        /\ t # u
        /\ call[t].pc = "done"
        /\ call[t].result[1].full_cities # << >>
        /\ call[u].pc = "loop"
        /\ call[u].i = 2
        /\ call[u].ocr_result # call[t].ocr_result

====
